---- MODULE Spec2Model ----
(***************************************************************************)
(* Container lifecycle of docker_red: DockerContainerRepository working    *)
(* against the Docker runtime (DockerHelper), the repository fetcher       *)
(* (GitHelper) and the containers table of the database (the ledger).      *)
(* Every coroutine of the repository is a request that advances one        *)
(* external call (await or blocking call) at a time.                       *)
(* With it: the user router (signup, login) on the users table, the token  *)
(* services (create, validate, refresh, the gate of the protected          *)
(* endpoints) on a clock, and the working directories and images of the    *)
(* clone-and-run pipeline.                                                 *)
(***************************************************************************)
EXTENDS Integers, Sequences, FiniteSets, TLC

\* ----------------------------------------------------------------- bounds
MaxIds == 2        \* container ids the runtime can hand out
MaxCalls == 2      \* requests served in one behaviour, requests interleaving
MaxSeqCalls == 3   \* requests served in one behaviour, one request at a time
MaxCpu == 1        \* largest raw cpu counter of a stats snapshot
MaxAuthCalls == 3  \* signup and login requests served in one behaviour
MaxTtl == 1        \* largest expires_delta, in minutes, a caller passes
MaxTime == 17      \* last minute of the clock
access_token_expire_minutes == 2   \* the setting ACCESS_TOKEN_EXPIRE_MINUTES

Procs == {1, 2}       \* request slots: at most two requests in flight
Ids == 1..MaxIds
OldIds == {1}         \* containers that exist when the server starts

\* A repository URL, split at "/" into segments, each segment into tokens so
\* that each occurrence of ".git" is a token of its own:
\* https://github.com/alice/app.git and https://github.com/bob/app/
Urls == {<<<<"https:">>, <<>>, <<"github.com">>, <<"alice">>, <<"app", ".git">>>>,
         <<<<"https:">>, <<>>, <<"github.com">>, <<"bob">>, <<"app">>, <<>>>>}
NoUrl == <<>>

Ops == {"list", "start", "stop", "restart", "info", "delete", "clone", "stats"}
Status == {"absent", "running", "exited"}
NoData == "No data available"
NoTag == "No tag available"
AckMessage == "Container successfully cloned and started"

VARIABLES
    runtime,   \* Docker: container id -> status ("absent": no such container)
    image,     \* Docker: container id -> the tags of the image it runs
    ledger,    \* rows of the containers table (ids)
    nextId,    \* the id Docker gives the next container it runs
    ncalls,    \* requests begun so far
    rq,        \* per request slot: arguments, locals, position, outcome
    deleted,   \* history: ids whose delete(id, force=True) has returned
    users,     \* rows of the users table: username, hashed_password
    nauth,     \* signup and login requests begun so far
    aq,        \* per request slot: a signup or login request
    now,       \* the clock (datetime.utcnow), in minutes
    issued,    \* history: the token create_token was asked for, with time and delta
    tq,        \* the call of the token services answered at this instant
    repos,     \* working directory -> the URL its checkout was cloned from
    images     \* image tag -> the URL of the checkout the image was built from

cvars == <<runtime, image, ledger, nextId, ncalls, rq, deleted>>
avars == <<users, nauth, aq>>
tvars == <<now, issued, tq>>
fvars == <<repos, images>>
vars == <<runtime, image, ledger, nextId, ncalls, rq, deleted, users, nauth, aq,
          now, issued, tq, repos, images>>

\* The shape of the state outside the requests.
TypeOK ==
    /\ runtime \in [Ids -> Status]
    /\ \A i \in Ids : Len(image[i]) <= 1 /\ (runtime[i] = "absent" => image[i] = <<>>)
    /\ ledger \subseteq Ids
    /\ nextId \in 1..(MaxIds + 1)
    /\ deleted \subseteq Ids

NoRet == [kind |-> "none"]

\* History of a request: the clone-and-run that returned before it with only
\* reads (list, info) in between: the id it created, the tag it built and the
\* ledger it started from.
NoPrev == [id |-> 0, image_tag |-> "", preLed |-> {}]

\* An empty slot.  A finished request stays in its slot at pc "done", with its
\* outcome (res, ret), until the next request begins.
Idle == [op |-> "none", id |-> 0, force |-> FALSE, url |-> NoUrl, pc |-> "idle",
         container |-> "none", image_tag |-> "", calls |-> <<>>, res |-> "none", ret |-> NoRet,
         at |-> "none", preRt |-> "absent", preLed |-> {}, preDeleted |-> {},
         seen |-> -1, todo |-> {}, out |-> {}, prev |-> NoPrev, ack |-> "",
         conn |-> FALSE]

Running(p) == rq[p].pc \notin {"idle", "done"}

\* What the request that takes the slot of r remembers of r.
Prev(r) ==
    IF r.pc = "done" /\ r.op = "clone" /\ r.res = "ok"
       THEN [id |-> r.id, image_tag |-> r.image_tag, preLed |-> r.preLed]
       ELSE IF r.pc = "done" /\ r.op \in {"list", "info"} THEN r.prev ELSE NoPrev

\* Signup and login requests.
Usernames == {"alice", "bob"}
Passwords == {"pw1", "pw2"}
Salts == {"s1", "s2"}     \* the salts bcrypt may draw for a hash
NoUser == [username |-> "", hashed_password |-> [salt |-> "", digest |-> <<>>]]
NoResponse == [status |-> 0, detail |-> ""]

\* An empty slot of the user router.  A finished request keeps its outcome: what
\* AuthService raised or returned (res, msg, user) and what the endpoint
\* responded (response); cause and preUsers are history.
AuthIdle == [op |-> "none", username |-> "", password |-> "", pc |-> "idle",
             res |-> "none", msg |-> "", user |-> NoUser, response |-> NoResponse,
             cause |-> "none", preUsers |-> {}]

\* Calls of the token services.  A JWT is its payload and the key that signed
\* it; an access token carries no "type" claim.  An expires_delta is <<>> (None)
\* or <<m>> (timedelta(minutes=m)).
secret_key == "secret"
ForgedKey == "forged"
NoToken == <<>>
NoResult == [kind |-> "none", status |-> 0, detail |-> "", out |-> NoToken]
TokenIdle == [op |-> "none", entry |-> "", token |-> NoToken, refresh |-> NoToken,
              delta |-> <<>>, res |-> NoResult]

\* The working directories and the image tags, before anything is fetched or
\* built: a directory or tag that is not there maps to nothing.
NoRepos == [d \in {} |-> <<>>]
NoImages == [t \in {} |-> <<>>]

\* First step of each coroutine.
FirstPc(o) ==
    CASE o = "list" -> "list"
      [] o = "clone" -> "ensure_dir"
      [] o = "stats" -> "get"
      [] OTHER -> "check_db"

\* The server starts on a database and a Docker daemon that outlive it: an old
\* container is one of an earlier run (with its ledger row) or one started
\* outside this system (without).
Init ==
    /\ runtime \in [Ids -> Status]
    /\ \A i \in Ids \ OldIds : runtime[i] = "absent"
    /\ image = [i \in Ids |-> <<>>]
    /\ ledger \in SUBSET OldIds
    /\ nextId = Cardinality(OldIds) + 1
    /\ ncalls = 0
    /\ rq = [p \in Procs |-> Idle]
    /\ deleted = {}
    /\ users = {}
    /\ nauth = 0
    /\ aq = [p \in Procs |-> AuthIdle]
    /\ now = 0
    /\ issued = {}
    /\ tq = TokenIdle
    /\ repos = NoRepos
    /\ images = NoImages

\* The request finishes at its current step: it raises `e` (or returns, e = "ok")
\* with value v.
Finish(r, e, v) ==
    [r EXCEPT !.pc = "done", !.at = r.pc, !.res = e, !.ret = v,
              !.todo = {}, !.out = {}]

\* The request has made the external call `name`, which succeeded or failed.
Called(r, name, ok) == [r EXCEPT !.calls = Append(@, [call |-> name, ok |-> ok])]

Set(p, r) == rq' = [rq EXCEPT ![p] = r]

\* Mutant: the connection of a ledger call stays with the request.
ReleaseNever(r) == r

\* The end of `async with self.db_pool.acquire() as connection`, by return or
\* by exception: the connection goes back to the pool.
Release(r) == [r EXCEPT !.conn = FALSE]

\* ------------------------------------------------------------ ledger (db)
\* Mutant: any container Docker knows counts as one of ours.
is_container_in_db_or_docker(container_id) ==
    container_id \in ledger \/ runtime[container_id] # "absent"

is_container_in_db(container_id) == container_id \in ledger

save_container_to_db(container_id) == ledger' = ledger \cup {container_id}

delete_container_from_db(container_id) == ledger' = ledger \ {container_id}

\* ---------------------------------------------------------------- helpers
\* DockerHelper lookup: the container object (its status as cached at lookup),
\* or None when Docker has no such container.
get_container_by_id(container_id) ==
    IF runtime[container_id] = "absent" THEN "none" ELSE runtime[container_id]

\* ------------------------------------------------------------- a request
\* Mutant: the endpoint has nothing to say before its coroutine has finished.
AckAfterwards(o) == ""

\* What an endpoint responds before its coroutine has taken a step: the
\* clone-and-run endpoint hands the coroutine to the background tasks and
\* returns its message; the other endpoints await theirs.
Ack(o) == IF o = "clone" THEN AckMessage ELSE ""

\* A request arrives: it takes the lowest slot with no request running, and
\* the finished requests leave their slots.
BeginUpTo(p, limit) ==
    /\ ~Running(p)
    /\ \A q \in Procs : q < p => Running(q)
    /\ ncalls < limit
    /\ \E o \in Ops, i \in Ids, f \in BOOLEAN, u \in Urls :
        /\ o \in {"list", "clone"} => i = 1
        /\ o # "delete" => f = FALSE
        /\ o # "clone" => u = CHOOSE x \in Urls : TRUE
        /\ rq' = [q \in Procs |->
                    IF q = p
                       THEN [Idle EXCEPT !.op = o, !.id = i, !.force = f,
                                         !.url = IF o = "clone" THEN u ELSE NoUrl,
                                         !.pc = FirstPc(o),
                                         !.preRt = runtime[i], !.preLed = ledger,
                                         !.preDeleted = deleted,
                                         !.prev = Prev(rq[p]),
                                         !.ack = Ack(o)]
                       ELSE IF Running(q) THEN rq[q] ELSE Idle]
    /\ ncalls' = ncalls + 1
    /\ UNCHANGED <<image, runtime, ledger, nextId, deleted>>

\* The ledger gate: `exc` is what the coroutine raises without a ledger row.
Gate(p, o, exc) ==
    /\ rq[p].op = o /\ rq[p].pc = "check_db"
    /\ IF is_container_in_db(rq[p].id)
          THEN Set(p, Release([rq[p] EXCEPT !.pc = "get"]))
          ELSE Set(p, Release(Finish(rq[p], exc, NoRet)))
    /\ UNCHANGED <<image, runtime, ledger, nextId, ncalls, deleted>>

\* The runtime lookup after the gate; with a container the coroutine goes to `to`.
Lookup(p, o, to) ==
    /\ rq[p].op = o /\ rq[p].pc = "get"
    /\ LET c == get_container_by_id(rq[p].id) IN
       \/ /\ c = "none"
          /\ Set(p, Finish(rq[p], "ContainerNotFoundException", NoRet))
       \/ /\ c # "none"
          /\ Set(p, [rq[p] EXCEPT !.container = c, !.pc = to])
       \/ Set(p, Finish(rq[p], "DockerAPIException", NoRet))
    /\ UNCHANGED <<image, runtime, ledger, nextId, ncalls, deleted>>

\* A runtime call `call` of request p that moves the container to status `to`;
\* it fails when Docker has no such container, and may fail otherwise.  A failed
\* call raises `exc` and changes nothing.
Transition(p, call, to, exc) ==
    \/ /\ runtime[rq[p].id] # "absent"
       /\ runtime' = [runtime EXCEPT ![rq[p].id] = to]
       /\ Set(p, Finish(Called(rq[p], call, TRUE), "ok", NoRet))
    \/ /\ UNCHANGED runtime
       /\ Set(p, Finish(Called(rq[p], call, FALSE), exc, NoRet))

\* ------------------------------------------------------- start_container
StartGate(p) == Gate(p, "start", "ContainerNotFoundException")

\* Mutant: start goes on to the transition without looking the container up.
StartLookupSkipped(p) ==
    /\ rq[p].op = "start" /\ rq[p].pc = "get"
    /\ Set(p, [rq[p] EXCEPT !.pc = "act"])
    /\ UNCHANGED <<image, runtime, ledger, nextId, ncalls, deleted>>

StartLookup(p) == Lookup(p, "start", "act")

StartCall(p) ==
    /\ rq[p].op = "start" /\ rq[p].pc = "act"
    /\ Transition(p, "start", "running", "DockerAPIException")
    /\ UNCHANGED <<image, ledger, nextId, ncalls, deleted>>

start_container(p) == StartGate(p) \/ StartLookup(p) \/ StartCall(p)

\* -------------------------------------------------------- stop_container
StopGate(p) == Gate(p, "stop", "ContainerNotFoundException")

StopLookup(p) == Lookup(p, "stop", "act")

StopCall(p) ==
    /\ rq[p].op = "stop" /\ rq[p].pc = "act"
    /\ Transition(p, "stop", "exited", "DockerAPIException")
    /\ UNCHANGED <<image, ledger, nextId, ncalls, deleted>>

stop_container(p) == StopGate(p) \/ StopLookup(p) \/ StopCall(p)

\* ----------------------------------------------------- restart_container
\* Without a ledger row restart raises a plain Exception; container.restart()
\* is not wrapped, so Docker's own error leaves the coroutine.
RestartGate(p) == Gate(p, "restart", "Exception")

RestartLookup(p) == Lookup(p, "restart", "act")

RestartCall(p) ==
    /\ rq[p].op = "restart" /\ rq[p].pc = "act"
    /\ Transition(p, "restart", "running", "APIError")
    /\ UNCHANGED <<image, ledger, nextId, ncalls, deleted>>

restart_container(p) == RestartGate(p) \/ RestartLookup(p) \/ RestartCall(p)

\* ---------------------------------------------------- get_container_info
\* c.image.tags[0] if c.image.tags else "No tag available"
first_tag(tags) == IF tags # <<>> THEN tags[1] ELSE NoTag

InfoGate(p) == Gate(p, "info", "ContainerNotFoundException")

InfoLookup(p) ==
    /\ rq[p].op = "info" /\ rq[p].pc = "get"
    /\ LET c == get_container_by_id(rq[p].id) IN
       \/ /\ c = "none"
          /\ Set(p, Finish(rq[p], "ContainerNotFoundException", NoRet))
       \/ /\ c # "none"
          /\ Set(p, Finish([rq[p] EXCEPT !.container = c], "ok",
                           [kind |-> "info", id |-> rq[p].id, status |-> c,
                            image |-> first_tag(image[rq[p].id])]))
       \/ Set(p, Finish(rq[p], "DockerAPIException", NoRet))
    /\ UNCHANGED <<image, runtime, ledger, nextId, ncalls, deleted>>

get_container_info(p) == InfoGate(p) \/ InfoLookup(p)

\* ------------------------------------------------------ delete_container
\* Mutant: delete goes to the runtime without looking at the ledger.
DeleteGateSkipped(p) ==
    /\ rq[p].op = "delete" /\ rq[p].pc = "check_db"
    /\ Set(p, [rq[p] EXCEPT !.pc = "get"])
    /\ UNCHANGED <<image, runtime, ledger, nextId, ncalls, deleted>>

DeleteGate(p) == Gate(p, "delete", "ContainerNotFoundException")

\* A container whose cached status is running is stopped before the removal.
DeleteLookup(p) ==
    /\ rq[p].op = "delete" /\ rq[p].pc = "get"
    /\ LET c == get_container_by_id(rq[p].id) IN
       \/ /\ c = "none"
          /\ Set(p, Finish(rq[p], "ContainerNotFoundException", NoRet))
       \/ /\ c # "none"
          /\ Set(p, [rq[p] EXCEPT !.container = c,
                        !.pc = IF c = "running" THEN "stop" ELSE "remove"])
       \/ Set(p, Finish(rq[p], "DockerAPIException", NoRet))
    /\ UNCHANGED <<image, runtime, ledger, nextId, ncalls, deleted>>

\* Mutant: a failed stop is only logged and the removal goes on.
DeleteStopBestEffort(p) ==
    /\ rq[p].op = "delete" /\ rq[p].pc = "stop"
    /\ \/ /\ runtime[rq[p].id] # "absent"
          /\ runtime' = [runtime EXCEPT ![rq[p].id] = "exited"]
          /\ Set(p, [Called(rq[p], "stop", TRUE) EXCEPT !.pc = "remove"])
       \/ /\ UNCHANGED runtime
          /\ Set(p, [Called(rq[p], "stop", FALSE) EXCEPT !.pc = "remove"])
    /\ UNCHANGED <<image, ledger, nextId, ncalls, deleted>>

DeleteStop(p) ==
    /\ rq[p].op = "delete" /\ rq[p].pc = "stop"
    /\ \/ /\ runtime[rq[p].id] # "absent"
          /\ runtime' = [runtime EXCEPT ![rq[p].id] = "exited"]
          /\ Set(p, [Called(rq[p], "stop", TRUE) EXCEPT !.pc = "remove"])
       \/ /\ UNCHANGED runtime
          /\ Set(p, Finish(Called(rq[p], "stop", FALSE), "DockerAPIException", NoRet))
    /\ UNCHANGED <<image, ledger, nextId, ncalls, deleted>>

\* Mutant: a failed removal is only logged and the ledger row is deleted anyway.
DeleteRemoveBestEffort(p) ==
    /\ rq[p].op = "delete" /\ rq[p].pc = "remove"
    /\ \/ /\ runtime[rq[p].id] # "absent"
          /\ rq[p].force \/ runtime[rq[p].id] # "running"
          /\ runtime' = [runtime EXCEPT ![rq[p].id] = "absent"]
          /\ image' = [image EXCEPT ![rq[p].id] = <<>>]
          /\ Set(p, [Called(rq[p], "remove", TRUE) EXCEPT !.pc = "db_delete"])
       \/ /\ UNCHANGED <<runtime, image>>
          /\ Set(p, [Called(rq[p], "remove", FALSE) EXCEPT !.pc = "db_delete"])
    /\ UNCHANGED <<ledger, nextId, ncalls, deleted>>

\* container.remove(force=force): Docker refuses to remove a running container
\* unless forced.
DeleteRemove(p) ==
    /\ rq[p].op = "delete" /\ rq[p].pc = "remove"
    /\ \/ /\ runtime[rq[p].id] # "absent"
          /\ rq[p].force \/ runtime[rq[p].id] # "running"
          /\ runtime' = [runtime EXCEPT ![rq[p].id] = "absent"]
          /\ image' = [image EXCEPT ![rq[p].id] = <<>>]
          /\ Set(p, [Called(rq[p], "remove", TRUE) EXCEPT !.pc = "db_delete"])
       \/ /\ UNCHANGED <<runtime, image>>
          /\ Set(p, Finish(Called(rq[p], "remove", FALSE), "DockerAPIException", NoRet))
    /\ UNCHANGED <<ledger, nextId, ncalls, deleted>>

\* The ledger row goes last; a failing DELETE leaves the coroutine unwrapped.
DeleteFromDb(p) ==
    /\ rq[p].op = "delete" /\ rq[p].pc = "db_delete"
    /\ \/ /\ delete_container_from_db(rq[p].id)
          /\ Set(p, Release(Finish(Called(rq[p], "db_delete", TRUE), "ok", NoRet)))
          /\ deleted' = IF rq[p].force THEN deleted \cup {rq[p].id} ELSE deleted
       \/ /\ UNCHANGED <<ledger, deleted>>
          /\ Set(p, Release(Finish(Called(rq[p], "db_delete", FALSE), "PostgresError",
                                    NoRet)))
    /\ UNCHANGED <<image, runtime, nextId, ncalls>>

delete_container(p) ==
    DeleteGate(p) \/ DeleteLookup(p) \/ DeleteStop(p) \/ DeleteRemove(p) \/ DeleteFromDb(p)

\* ----------------------------------------------- clone_and_run_container
\* github_url.rstrip('/'): the empty segments at the end are the trailing slashes.
RECURSIVE rstrip(_)
rstrip(url) ==
    IF url # <<>> /\ url[Len(url)] = <<>>
       THEN rstrip(SubSeq(url, 1, Len(url) - 1))
       ELSE url

\* .replace('.git', ''): every occurrence goes, wherever it is.
replace_git(url) ==
    LET keep(t) == t # ".git" IN
    [k \in 1..Len(url) |-> SelectSeq(url[k], keep)]

\* The text of a segment.
RECURSIVE Join(_)
Join(tokens) == IF tokens = <<>> THEN "" ELSE Head(tokens) \o Join(Tail(tokens))

\* os.path.basename: what follows the last "/".
basename(path) == IF path = <<>> THEN "" ELSE Join(path[Len(path)])

\* f"./repos/{...}": the working directory of a repository URL, as segments.
repo_dir(github_url) ==
    <<<<".">>, <<"repos">>, <<basename(replace_git(rstrip(github_url)))>>>>

\* build_container tags the image with the last segment of the directory.
image_tag(dir) == basename(dir)

\* Docker stores a tag that names no version under the version "latest".
Reference(tag) == tag \o ":latest"

\* Every exception of the pipeline is caught and raised as DockerAPIException.
CloneEnsureDir(p) ==
    /\ rq[p].op = "clone" /\ rq[p].pc = "ensure_dir"
    /\ \/ Set(p, [rq[p] EXCEPT !.pc = "fetch"])
       \/ Set(p, Finish(rq[p], "DockerAPIException", NoRet))
    /\ UNCHANGED <<image, runtime, ledger, nextId, ncalls, deleted>>

CloneFetch(p) ==
    /\ rq[p].op = "clone" /\ rq[p].pc = "fetch"
    /\ \/ Set(p, [Called(rq[p], "fetch", TRUE) EXCEPT !.pc = "build"])
       \/ Set(p, Finish(Called(rq[p], "fetch", FALSE), "DockerAPIException", NoRet))
    /\ UNCHANGED <<image, runtime, ledger, nextId, ncalls, deleted>>

CloneBuild(p) ==
    /\ rq[p].op = "clone" /\ rq[p].pc = "build"
    /\ \/ Set(p, [Called(rq[p], "build", TRUE) EXCEPT
                     !.pc = "run", !.image_tag = image_tag(repo_dir(rq[p].url))])
       \/ Set(p, Finish(Called(rq[p], "build", FALSE), "DockerAPIException", NoRet))
    /\ UNCHANGED <<image, runtime, ledger, nextId, ncalls, deleted>>

\* Mutant: the ledger row is written before the outcome of the run is known.
CloneRunSavedFirst(p) ==
    /\ rq[p].op = "clone" /\ rq[p].pc = "run"
    /\ ledger' = ledger \cup {nextId}
    /\ \/ /\ nextId <= MaxIds
          /\ runtime' = [runtime EXCEPT ![nextId] = "running"]
          /\ image' = [image EXCEPT ![nextId] = <<Reference(rq[p].image_tag)>>]
          /\ nextId' = nextId + 1
          /\ Set(p, Finish([Called(rq[p], "run", TRUE) EXCEPT !.id = nextId], "ok", NoRet))
       \/ /\ UNCHANGED <<runtime, image, nextId>>
          /\ Set(p, Finish(Called(rq[p], "run", FALSE), "DockerAPIException", NoRet))
    /\ UNCHANGED <<ncalls, deleted>>

\* containers.run(detach=True): Docker starts a container under a fresh id
\* (while it has ids to hand out: with none left the run fails).
CloneRun(p) ==
    /\ rq[p].op = "clone" /\ rq[p].pc = "run"
    /\ \/ /\ nextId <= MaxIds
          /\ runtime' = [runtime EXCEPT ![nextId] = "running"]
          /\ image' = [image EXCEPT ![nextId] = <<Reference(rq[p].image_tag)>>]
          /\ nextId' = nextId + 1
          /\ Set(p, [Called(rq[p], "run", TRUE) EXCEPT !.pc = "db_insert", !.id = nextId,
                           !.container = "running"])
       \/ /\ UNCHANGED <<runtime, image, nextId>>
          /\ Set(p, Finish(Called(rq[p], "run", FALSE), "DockerAPIException", NoRet))
    /\ UNCHANGED <<ledger, ncalls, deleted>>

CloneSave(p) ==
    /\ rq[p].op = "clone" /\ rq[p].pc = "db_insert"
    /\ \/ /\ save_container_to_db(rq[p].id)
          /\ Set(p, Release(Finish(Called(rq[p], "db_insert", TRUE), "ok", NoRet)))
       \/ /\ UNCHANGED ledger
          /\ Set(p, Release(Finish(Called(rq[p], "db_insert", FALSE),
                                    "DockerAPIException", NoRet)))
    /\ UNCHANGED <<image, runtime, nextId, ncalls, deleted>>

clone_and_run_container(p) ==
    CloneEnsureDir(p) \/ CloneFetch(p) \/ CloneBuild(p) \/ CloneRun(p) \/ CloneSave(p)

\* --------------------------------------------------- get_container_stats
\* A Python value of the stats computation: a float held in hundredths, or a str.
Float(h) == [tag |-> "float", v |-> h]
Str(t) == [tag |-> "str", v |-> t]

\* n / d to the nearest integer, ties to even.
RoundDiv(n, d) ==
    LET q == n \div d
        twice == 2 * (n % d)
    IN IF twice > d \/ (twice = d /\ q % 2 = 1) THEN q + 1 ELSE q

\* (cpu_usage / system_cpu_usage) * 100 if system_cpu_usage > 0 else the sentinel
cpu_percentage(cpu_usage, system_cpu_usage) ==
    IF system_cpu_usage > 0
        THEN Float(RoundDiv(cpu_usage * 10000, system_cpu_usage))
        ELSE Str(NoData)

\* round(x, 2): a str has no __round__, Python raises TypeError.
round2(x) == IF x.tag = "float" THEN x ELSE [tag |-> "TypeError", v |-> 0]

\* No ledger gate here; the lookup is inside the try, so the
\* ContainerNotFoundException it raises is caught and raised as DockerAPIException.
StatsLookup(p) ==
    /\ rq[p].op = "stats" /\ rq[p].pc = "get"
    /\ LET c == get_container_by_id(rq[p].id) IN
       \/ /\ c = "none"
          /\ Set(p, Finish(rq[p], "DockerAPIException", NoRet))
       \/ /\ c # "none"
          /\ Set(p, [rq[p] EXCEPT !.container = c, !.pc = "stats"])
       \/ Set(p, Finish(rq[p], "DockerAPIException", NoRet))
    /\ UNCHANGED <<image, runtime, ledger, nextId, ncalls, deleted>>

StatsCompute(p) ==
    /\ rq[p].op = "stats" /\ rq[p].pc = "stats"
    /\ \/ /\ runtime[rq[p].id] # "absent"
          /\ \E cpu_usage \in 0..MaxCpu, system_cpu_usage \in 0..MaxCpu :
               LET rounded == round2(cpu_percentage(cpu_usage, system_cpu_usage))
                   r == [rq[p] EXCEPT !.seen = system_cpu_usage] IN
               IF rounded.tag = "TypeError"
                  THEN Set(p, Finish(r, "DockerAPIException", NoRet))
                  ELSE Set(p, Finish(r, "ok",
                             [kind |-> "stats", cpu_usage_percent |-> rounded]))
       \/ Set(p, Finish(rq[p], "DockerAPIException", NoRet))
    /\ UNCHANGED <<image, runtime, ledger, nextId, ncalls, deleted>>

get_container_stats(p) == StatsLookup(p) \/ StatsCompute(p)

\* ------------------------------------------------------- list_containers
ListAll(p) ==
    /\ rq[p].op = "list" /\ rq[p].pc = "list"
    /\ LET all == {[id |-> i, status |-> runtime[i], tags |-> image[i]] :
                       i \in {j \in Ids : runtime[j] # "absent"}} IN
       \/ /\ all # {}
          /\ Set(p, [rq[p] EXCEPT !.todo = all, !.pc = "filter"])
       \/ /\ all = {}
          /\ Set(p, Finish(rq[p], "ok", [kind |-> "list", items |-> {}]))
       \/ Set(p, Finish(rq[p], "DockerAPIException", NoRet))
    /\ UNCHANGED <<image, runtime, ledger, nextId, ncalls, deleted>>

\* Mutant: the loop keeps every container Docker lists.
ListFilterKeepsAll(p) ==
    /\ rq[p].op = "list" /\ rq[p].pc = "filter"
    /\ LET c == CHOOSE x \in rq[p].todo : \A y \in rq[p].todo : y.id <= x.id
           container == [id |-> c.id, status |-> c.status, image |-> first_tag(c.tags)]
           rest == rq[p].todo \ {c}
           r == Release([rq[p] EXCEPT !.todo = rest, !.out = @ \cup {container}]) IN
       IF rest = {}
          THEN Set(p, Finish(r, "ok", [kind |-> "list", items |-> r.out]))
          ELSE Set(p, r)
    /\ UNCHANGED <<image, runtime, ledger, nextId, ncalls, deleted>>

\* One turn of the loop: the newest container not yet looked at.
ListFilter(p) ==
    /\ rq[p].op = "list" /\ rq[p].pc = "filter"
    /\ LET c == CHOOSE x \in rq[p].todo : \A y \in rq[p].todo : y.id <= x.id
           container == [id |-> c.id, status |-> c.status, image |-> first_tag(c.tags)]
           out == IF is_container_in_db(c.id)
                     THEN rq[p].out \cup {container}
                     ELSE rq[p].out
           rest == rq[p].todo \ {c}
           r == Release([rq[p] EXCEPT !.todo = rest, !.out = out]) IN
       IF rest = {}
          THEN Set(p, Finish(r, "ok", [kind |-> "list", items |-> out]))
          ELSE Set(p, r)
    /\ UNCHANGED <<image, runtime, ledger, nextId, ncalls, deleted>>

list_containers(p) == ListAll(p) \/ ListFilter(p)

\* ------------------------------------------------------------ environment
\* The server process dies (or the task is cancelled) between two steps.
Crash(p) ==
    /\ Running(p)
    /\ Set(p, Release(Finish(rq[p], "crashed", NoRet)))
    /\ UNCHANGED <<image, runtime, ledger, nextId, ncalls, deleted>>

Step(p) ==
    \/ start_container(p)
    \/ stop_container(p)
    \/ restart_container(p)
    \/ get_container_info(p)
    \/ delete_container(p)
    \/ clone_and_run_container(p)
    \/ get_container_stats(p)
    \/ list_containers(p)
    \/ Crash(p)

\* Requests interleave at every await and blocking call.
Begin(p) == BeginUpTo(p, MaxCalls)

Next == (\E p \in Procs : Begin(p) \/ Step(p)) /\ UNCHANGED <<avars, tvars, fvars>>

Spec == Init /\ [][Next]_vars

\* The server is one process with one event loop (main.py, uvicorn.run), and
\* every method of the repository is a coroutine on it, the clone-and-run
\* background task included.  A coroutine gives the loop up only at an await,
\* that is at a ledger call; the calls to Docker and git are blocking calls,
\* and from one of them to the next await of the coroutine nothing else runs.
\* The request holds the loop when its next step follows a blocking call of
\* its own with no await in between.  (Mutant HoldingNothing: the blocking
\* calls run off the loop, which is never held.)
HoldingNothing(p) == FALSE

Holding(p) ==
    CASE rq[p].op \in {"start", "stop", "restart"} -> rq[p].pc = "act"
      [] rq[p].op = "delete" -> rq[p].pc \in {"stop", "remove"}
      [] rq[p].op = "clone" -> rq[p].pc \in {"fetch", "build", "run"}
      [] rq[p].op = "stats" -> rq[p].pc = "stats"
      [] OTHER -> FALSE

LoopBegin(p) == Begin(p) /\ \A q \in Procs : ~Holding(q)

LoopStep(p) == Step(p) /\ \A q \in Procs \ {p} : ~Holding(q)

LoopNext == (\E p \in Procs : LoopBegin(p) \/ LoopStep(p)) /\ UNCHANGED <<avars, tvars, fvars>>

LoopSpec == Init /\ [][LoopNext]_vars

\* One request at a time: a request begins when no other is running.
SeqBegin(p) == BeginUpTo(p, MaxSeqCalls) /\ \A q \in Procs : ~Running(q)

SeqNext == (\E p \in Procs : SeqBegin(p) \/ Step(p)) /\ UNCHANGED <<avars, tvars, fvars>>

SeqSpec == Init /\ [][SeqNext]_vars

\* The ledger calls at the grain of the pool: a ledger call first takes a
\* connection (db_pool.acquire()), then runs its statement and gives the
\* connection back.  One request at a time.
LedgerPcs == {"check_db", "filter", "db_delete", "db_insert"}

Acquire(p) ==
    /\ rq[p].pc \in LedgerPcs /\ ~rq[p].conn
    /\ Set(p, [rq[p] EXCEPT !.conn = TRUE])
    /\ UNCHANGED <<runtime, image, ledger, nextId, ncalls, deleted>>

PoolStep(p) == Step(p) /\ (rq[p].pc \in LedgerPcs => rq[p].conn)

PoolNext ==
    (\E p \in Procs : SeqBegin(p) \/ Acquire(p) \/ PoolStep(p)) /\ UNCHANGED <<avars, tvars, fvars>>

PoolSpec == Init /\ [][PoolNext]_vars

\* --------------------------------------- working directories and images
\* os.path.exists(repo_dir)
exists(dir) == dir \in DOMAIN repos

\* GitHelper.clone_or_pull_repo: an existing directory is pulled from the origin
\* it was cloned from, whatever github_url is; a new one is cloned from github_url.
clone_or_pull_repo(github_url, dir) ==
    IF exists(dir)
       THEN repos
       ELSE [d \in DOMAIN repos \cup {dir} |-> IF d = dir THEN github_url ELSE repos[d]]

\* images.build(path=build_path, tag=image_tag): the tag moves to the image
\* built from what the directory holds.
build_container(dir) ==
    [t \in DOMAIN images \cup {image_tag(dir)} |->
        IF t = image_tag(dir) THEN repos[dir] ELSE images[t]]

\* The step just taken by request p was a successful fetch, a successful build.
Fetches(p) == rq[p].op = "clone" /\ rq[p].pc = "fetch" /\ rq'[p].pc = "build"
Builds(p) == rq[p].op = "clone" /\ rq[p].pc = "build" /\ rq'[p].pc = "run"

\* A step of request p, with what it does to the working directories and the
\* images.
RepoStep(p) ==
    /\ Step(p)
    /\ repos' = IF Fetches(p) THEN clone_or_pull_repo(rq[p].url, repo_dir(rq[p].url))
                              ELSE repos
    /\ images' = IF Builds(p) THEN build_container(repo_dir(rq[p].url)) ELSE images

RepoBegin(p) == SeqBegin(p) /\ UNCHANGED fvars

\* One request at a time, the working directories and images followed.
RepoNext == (\E p \in Procs : RepoBegin(p) \/ RepoStep(p)) /\ UNCHANGED <<avars, tvars>>

RepoSpec == Init /\ [][RepoNext]_vars

\* ------------------------------------------------- users: signup and login
\* pwd_context.hash: bcrypt under a salt drawn for this hash.
get_password_hash(password, salt) == [salt |-> salt, digest |-> <<salt, password>>]

\* pwd_context.verify: the digest of the plain password under the salt of the hash.
verify_password(plain_password, hashed_password) ==
    get_password_hash(plain_password, hashed_password.salt) = hashed_password

\* SELECT ... FROM users WHERE username = $1: the rows fetchrow may return.
get_user_by_username(username) == {row \in users : row.username = username}

\* INSERT INTO users (username, hashed_password)
create_user_row(user) == users' = users \cup {user}

AuthRunning(p) == aq[p].pc \notin {"idle", "done"}

AuthSet(p, r) == aq' = [aq EXCEPT ![p] = r]

\* A signup or login request arrives when no other is being served.
AuthBegin(p) ==
    /\ \A q \in Procs : ~AuthRunning(q)
    /\ \A q \in Procs : q < p => AuthRunning(q)
    /\ nauth < MaxAuthCalls
    /\ \E o \in {"signup", "login"}, u \in Usernames, pw \in Passwords :
         aq' = [q \in Procs |->
                  IF q = p
                     THEN [AuthIdle EXCEPT !.op = o, !.username = u, !.password = pw,
                                           !.pc = "lookup", !.preUsers = users]
                     ELSE AuthIdle]
    /\ nauth' = nauth + 1
    /\ UNCHANGED users

AuthFinish(r, e, m, resp) ==
    [r EXCEPT !.pc = "done", !.res = e, !.msg = m, !.response = resp]

\* Mutant: create_user inserts without looking for the username.
SignupLookupSkipped(p) ==
    /\ aq[p].op = "signup" /\ aq[p].pc = "lookup"
    /\ AuthSet(p, [aq[p] EXCEPT !.pc = "insert"])
    /\ UNCHANGED <<users, nauth>>

\* create_user, up to its check; the signup endpoint turns
\* UserAlreadyExistsException into 400 with the exception's text.
SignupLookup(p) ==
    /\ aq[p].op = "signup" /\ aq[p].pc = "lookup"
    /\ IF get_user_by_username(aq[p].username) # {}
          THEN AuthSet(p, AuthFinish(aq[p], "UserAlreadyExistsException",
                                     "User already exists",
                                     [status |-> 400, detail |-> "User already exists"]))
          ELSE AuthSet(p, [aq[p] EXCEPT !.pc = "insert"])
    /\ UNCHANGED <<users, nauth>>

\* What the users table does with an INSERT for a username it already holds:
\* with a unique index on username the INSERT raises, without one it adds a row.
DuplicateInsert == {"UniqueViolationError", "inserted"}

\* create_user, after its check: hash and insert.  The signup endpoint handles
\* UserAlreadyExistsException only; anything else is answered 500.
SignupInsert(p) ==
    /\ aq[p].op = "signup" /\ aq[p].pc = "insert"
    /\ \E salt \in Salts, dup \in DuplicateInsert :
         LET user == [username |-> aq[p].username,
                      hashed_password |-> get_password_hash(aq[p].password, salt)] IN
         IF get_user_by_username(aq[p].username) # {} /\ dup = "UniqueViolationError"
            THEN /\ UNCHANGED users
                 /\ AuthSet(p, AuthFinish(aq[p], "UniqueViolationError", "",
                                           [status |-> 500, detail |-> "Internal Server Error"]))
            ELSE /\ create_user_row(user)
                 /\ AuthSet(p, AuthFinish([aq[p] EXCEPT !.user = user], "ok", "",
                                           [status |-> 200,
                                            detail |-> "User created successfully"]))
    /\ UNCHANGED nauth

\* The methods of AuthService.
AuthServiceMethods ==
    {"authenticate_user", "create_user", "get_password_hash", "verify_password",
     "create_access_token", "create_refresh_token", "validate_token",
     "get_user_by_username", "refresh_access_token"}

\* Mutant: the failure of authenticate_user says which check failed.
TellingFailure(cause) ==
    [res |-> "AuthenticationException",
     msg |-> IF cause = "unknown" THEN "User not found" ELSE "Incorrect password"]

\* What authenticate_user raises when `cause` ("unknown": no such user,
\* "wrong": the password does not verify) makes it fail.
AuthenticationFailure(cause) ==
    [res |-> "AuthenticationException", msg |-> "Incorrect username or password"]

\* The response of the login endpoint to what authenticate_user did: after a
\* user is returned the endpoint calls auth_service.create_token, and an
\* exception other than AuthenticationException is answered with 500.
login_response(res) ==
    CASE res = "AuthenticationException" ->
            [status |-> 401, detail |-> "Invalid username or password"]
      [] res = "ok" /\ "create_token" \in AuthServiceMethods ->
            [status |-> 200, detail |-> "Login successful"]
      [] OTHER -> [status |-> 500, detail |-> "Internal server error"]

\* authenticate_user inside login_for_access_token.
LoginAuthenticate(p) ==
    /\ aq[p].op = "login" /\ aq[p].pc = "lookup"
    /\ LET rows == get_user_by_username(aq[p].username)
           fail(cause) ==
               LET f == AuthenticationFailure(cause) IN
               AuthSet(p, AuthFinish([aq[p] EXCEPT !.cause = cause], f.res, f.msg,
                                     login_response(f.res)))
       IN
       \/ rows = {} /\ fail("unknown")
       \/ \E user \in rows :
             IF verify_password(aq[p].password, user.hashed_password)
                THEN AuthSet(p, AuthFinish([aq[p] EXCEPT !.user = user], "ok", "",
                                          login_response("ok")))
                ELSE fail("wrong")
    /\ UNCHANGED <<users, nauth>>

AuthStep(p) == SignupLookup(p) \/ SignupInsert(p) \/ LoginAuthenticate(p)

AuthNext == (\E p \in Procs : AuthBegin(p) \/ AuthStep(p)) /\ UNCHANGED <<cvars, tvars, fvars>>

AuthSpec == Init /\ [][AuthNext]_vars

\* A signup or login request arrives while another is being served: the
\* coroutines of the two requests interleave at their awaits.
AuthBeginConcurrent(p) ==
    /\ ~AuthRunning(p)
    /\ \A q \in Procs : q < p => AuthRunning(q)
    /\ nauth < MaxAuthCalls
    /\ \E o \in {"signup", "login"}, u \in Usernames, pw \in Passwords :
         AuthSet(p, [AuthIdle EXCEPT !.op = o, !.username = u, !.password = pw,
                                     !.pc = "lookup", !.preUsers = users])
    /\ nauth' = nauth + 1
    /\ UNCHANGED users

AuthRaceNext ==
    (\E p \in Procs : AuthBeginConcurrent(p) \/ AuthStep(p)) /\ UNCHANGED <<cvars, tvars, fvars>>

AuthRaceSpec == Init /\ [][AuthRaceNext]_vars

\* ------------------------------------------ tokens: issue, validate, refresh
DefaultAccessMinutes == 15    \* timedelta(minutes=15)
DefaultRefreshDays == 7       \* timedelta(days=7)
MinutesPerDay == 24 * 60

\* What the clock may advance by: a minute, or the default access lifetime.
Steps == {1, DefaultAccessMinutes}

Deltas == {<<>>} \cup {<<m>> : m \in 0..MaxTtl}
TokenTypes == {"access", "refresh"}

\* Python's `expires_delta or default`: None and timedelta(0) are both falsy.
Or(expires_delta, default) ==
    IF expires_delta = <<>> \/ expires_delta = <<0>> THEN default ELSE expires_delta[1]

\* TokenTools.create_token (TokenCreator.create_token is the same code).
create_token(sub, token_type, expires_delta) ==
    IF token_type = "refresh"
       THEN [sub |-> sub, type |-> "refresh", key |-> secret_key,
             exp |-> now + Or(expires_delta, DefaultRefreshDays * MinutesPerDay)]
       ELSE [sub |-> sub, type |-> "", key |-> secret_key,
             exp |-> now + Or(expires_delta, DefaultAccessMinutes)]

Payload(token) == [kind |-> "ok", status |-> 200, detail |-> "", out |-> <<token>>]
HTTPException(status, detail) ==
    [kind |-> "HTTPException", status |-> status, detail |-> detail, out |-> NoToken]
AttributeError == [kind |-> "AttributeError", status |-> 0, detail |-> "", out |-> NoToken]

\* A validation that lets a token go a minute before its exp claim.
validate_token_early(token) ==
    IF token.key # secret_key THEN HTTPException(401, "Invalid token")
    ELSE IF token.exp - 1 <= now THEN HTTPException(401, "Token has expired")
    ELSE Payload(token)

\* jwt.decode: the signature first, then the exp claim (expired when exp <= now).
validate_token(token) ==
    IF token.key # secret_key THEN HTTPException(401, "Invalid token")
    ELSE IF token.exp <= now THEN HTTPException(401, "Token has expired")
    ELSE Payload(token)

\* A check of the "type" claim that any token passes.
is_any_type(payload) == payload.type \in {"", "refresh"}

\* The check of the "type" claim, common to every refresh entry point.
is_refresh(payload) == payload.type = "refresh"

\* TokenTools.refresh_access_token.
TokenTools_refresh_access_token(refresh_token) ==
    LET v == validate_token(refresh_token) IN
    IF v.kind # "ok" THEN v
    ELSE IF ~is_refresh(refresh_token)
       THEN HTTPException(401, "Invalid or expired refresh token")
    ELSE Payload(create_token(refresh_token.sub, "access",
                              <<access_token_expire_minutes>>))

\* RefreshToken.__call__.
RefreshToken_call(refresh_token) ==
    LET v == validate_token(refresh_token) IN
    IF v.kind # "ok" THEN v
    ELSE IF ~is_refresh(refresh_token)
       THEN HTTPException(401, "Invalid or expired refresh token")
    ELSE IF get_user_by_username(refresh_token.sub) = {}
       THEN HTTPException(401, "User not found")
    ELSE Payload(create_token(refresh_token.sub, "access",
                              <<access_token_expire_minutes>>))

\* The methods TokenTools has.
TokenToolsMethods == {"create_token", "validate_token", "refresh_access_token"}

\* AuthService.refresh_access_token: it asks its TokenTools for
\* create_access_token, and re-raises whatever is raised.
AuthService_refresh_access_token(refresh_token) ==
    LET v == validate_token(refresh_token) IN
    IF v.kind # "ok" THEN v
    ELSE IF ~is_refresh(refresh_token)
       THEN HTTPException(401, "Invalid or expired refresh token")
    ELSE IF get_user_by_username(refresh_token.sub) = {}
       THEN HTTPException(404, "User not found")
    ELSE IF "create_access_token" \notin TokenToolsMethods THEN AttributeError
    ELSE Payload(create_token(refresh_token.sub, "access", <<>>))

RefreshEntries == {"TokenTools", "RefreshToken", "AuthService"}

refresh(entry, refresh_token) ==
    CASE entry = "TokenTools" -> TokenTools_refresh_access_token(refresh_token)
      [] entry = "RefreshToken" -> RefreshToken_call(refresh_token)
      [] entry = "AuthService" -> AuthService_refresh_access_token(refresh_token)

\* POST /refresh: the refresh_token cookie goes to AuthService; an HTTPException
\* passes, anything else is answered 500.
refresh_endpoint(cookie) ==
    IF cookie = NoToken THEN HTTPException(401, "Unauthorized")
    ELSE LET r == AuthService_refresh_access_token(cookie[1]) IN
         IF r.kind = "AttributeError" THEN HTTPException(500, "Internal server error")
         ELSE r

\* get_current_user, the gate of the protected endpoints: the user it returns,
\* as the payload of the token it accepted.
get_current_user(access_token, refresh_token) ==
    IF access_token = NoToken THEN HTTPException(401, "Unauthorized")
    ELSE LET v == validate_token(access_token[1])
             r == AuthService_refresh_access_token(refresh_token[1])
             t == IF v.kind = "ok" THEN v ELSE r
         IN  IF v.kind # "ok" /\ refresh_token = NoToken
                THEN HTTPException(401, "Refresh token is missing")
             ELSE IF v.kind # "ok" /\ r.kind = "HTTPException"
                THEN HTTPException(401, "Invalid refresh token")
             ELSE IF v.kind # "ok" /\ r.kind = "AttributeError"
                THEN HTTPException(500, "Internal server error")
             ELSE IF get_user_by_username(t.out[1].sub) = {}
                THEN HTTPException(401, "User not found")
             ELSE t

\* The tokens a client can present: the ones issued, and the same payloads
\* signed with another key.
IssuedTokens == {i.tok : i \in issued}
Presentable == IssuedTokens \cup {[t EXCEPT !.key = ForgedKey] : t \in IssuedTokens}
Cookies == {NoToken} \cup {<<t>> : t \in Presentable}

TokenCall(r) == tq' = [TokenIdle EXCEPT !.op = r.op, !.entry = r.entry, !.token = r.token,
                                        !.refresh = r.refresh, !.delta = r.delta,
                                        !.res = r.res]

\* Time passes; the call answered before is over.
Tick ==
    /\ \E d \in Steps : now + d <= MaxTime /\ now' = now + d
    /\ tq' = TokenIdle
    /\ UNCHANGED <<cvars, avars, fvars, issued>>

\* create_token(data={"sub": sub}, token_type, expires_delta): one token is
\* followed through its life.
Issue ==
    /\ issued = {}
    /\ \E sub \in Usernames, ty \in TokenTypes, d \in Deltas :
          LET t == create_token(sub, ty, d) IN
          /\ issued' = issued \cup {[tok |-> t, at |-> now, delta |-> d, type |-> ty]}
          /\ TokenCall([op |-> "issue", entry |-> "", token |-> NoToken, refresh |-> NoToken,
                        delta |-> d, res |-> Payload(t)])
    /\ UNCHANGED <<cvars, avars, fvars, now>>

\* validate_token(token).
Validate ==
    /\ \E t \in Presentable :
          TokenCall([op |-> "validate", entry |-> "", token |-> <<t>>, refresh |-> NoToken,
                     delta |-> <<>>, res |-> validate_token(t)])
    /\ UNCHANGED <<cvars, avars, fvars, now, issued>>

\* One of the three refresh entry points is called with a token.
Refresh ==
    /\ \E e \in RefreshEntries, t \in Presentable :
          TokenCall([op |-> "refresh", entry |-> e, token |-> <<t>>, refresh |-> NoToken,
                     delta |-> <<>>, res |-> refresh(e, t)])
    /\ UNCHANGED <<cvars, avars, fvars, now, issued>>

\* POST /refresh with the cookie the client holds.
RefreshEndpoint ==
    /\ \E c \in Cookies :
          TokenCall([op |-> "refresh_endpoint", entry |-> "AuthService", token |-> c,
                     refresh |-> NoToken, delta |-> <<>>, res |-> refresh_endpoint(c)])
    /\ UNCHANGED <<cvars, avars, fvars, now, issued>>

\* POST /logout: both cookies are deleted in the response, nothing else.
Logout ==
    /\ TokenCall([op |-> "logout", entry |-> "", token |-> NoToken, refresh |-> NoToken,
                  delta |-> <<>>,
                  res |-> [kind |-> "ok", status |-> 200,
                           detail |-> "Logged out successfully", out |-> NoToken]])
    /\ UNCHANGED <<cvars, avars, fvars, now, issued>>

\* A request to a protected endpoint with the cookies the client holds.
GetCurrentUser ==
    /\ \E a \in Cookies, r \in Cookies :
          TokenCall([op |-> "get_current_user", entry |-> "", token |-> a, refresh |-> r,
                     delta |-> <<>>, res |-> get_current_user(a, r)])
    /\ UNCHANGED <<cvars, avars, fvars, now, issued>>

TokenNext == Tick \/ Issue \/ Validate \/ Refresh \/ RefreshEndpoint \/ Logout \/ GetCurrentUser

\* The token services run on a users table that holds some of the users.
TokenInit ==
    /\ runtime = [i \in Ids |-> "absent"]
    /\ image = [i \in Ids |-> <<>>]
    /\ ledger = {}
    /\ nextId = Cardinality(OldIds) + 1
    /\ ncalls = 0
    /\ rq = [p \in Procs |-> Idle]
    /\ deleted = {}
    /\ users \in SUBSET {[username |-> "alice",
                          hashed_password |-> get_password_hash("pw1", "s1")]}
    /\ nauth = 0
    /\ aq = [p \in Procs |-> AuthIdle]
    /\ now = 0
    /\ issued = {}
    /\ tq = TokenIdle
    /\ repos = NoRepos
    /\ images = NoImages

TokenSpec == TokenInit /\ [][TokenNext]_vars

\* ================================================================ claims
\* The request in slot p has been answered (it returned or raised).
Answered(p) == rq[p].pc = "done" /\ rq[p].res # "crashed"

\* The request in slot p was issued for a container with a ledger row.
Managed(p) == rq[p].id \in rq[p].preLed

NotFound == "ContainerNotFoundException"
RuntimeError == "DockerAPIException"

PipelineOrder == <<"fetch", "build", "run", "db_insert">>

\* C1: start, stop, delete and getInfo on an id without a ledger row make no
\* runtime call, leave the container's runtime status (and existence) as it was
\* when the request arrived, and raise ContainerNotFoundException, whatever the
\* runtime holds under that id.
C1_UnmanagedIsRejected ==
    \A p \in Procs :
        (rq[p].op \in {"start", "stop", "delete", "info"} /\ ~Managed(p)) =>
            /\ rq[p].calls = <<>>
            /\ runtime[rq[p].id] = rq[p].preRt
            /\ Answered(p) => rq[p].res = NotFound

\* C1 witness: start of a stopped container Docker holds but the ledger does not.
C1_Witness ==
    \E p \in Procs :
        /\ rq[p].op = "start" /\ ~Managed(p) /\ rq[p].preRt = "exited"
        /\ Answered(p) /\ rq[p].res = NotFound

\* C2: the calls of one cloneAndRun are a prefix of fetch, build, run, ledger
\* insert, each made only after the one before it succeeded; when fetch, build
\* or run fails the ledger is what it was when the invocation began, and the
\* ledger differs only once all of fetch, build and run succeeded.
C2_PipelineOrder ==
    \A p \in Procs :
        rq[p].op = "clone" =>
            LET calls == rq[p].calls IN
            /\ Len(calls) <= Len(PipelineOrder)
            /\ \A k \in 1..Len(calls) :
                  /\ calls[k].call = PipelineOrder[k]
                  /\ k < Len(calls) => calls[k].ok
            /\ (\E k \in 1..Len(calls) :
                    ~calls[k].ok /\ calls[k].call \in {"fetch", "build", "run"})
                  => ledger = rq[p].preLed
            /\ ledger # rq[p].preLed =>
                  /\ Len(calls) = Len(PipelineOrder)
                  /\ \A k \in 1..Len(calls) : calls[k].ok

\* C2 witness: a pipeline whose run step failed after fetch and build succeeded.
C2_Witness ==
    \E p \in Procs :
        /\ rq[p].op = "clone" /\ Answered(p)
        /\ Len(rq[p].calls) = 3
        /\ ~rq[p].calls[3].ok
        /\ ledger = rq[p].preLed

\* C3: while a delete of a managed container is under way, and after it ended
\* in any way (a crash between two steps too), a container that still exists in
\* the runtime still has its ledger row.
C3_LedgerRowOutlivesContainer ==
    \A p \in Procs :
        (rq[p].op = "delete" /\ Managed(p) /\ runtime[rq[p].id] # "absent")
            => rq[p].id \in ledger

\* C3 witness: the server died after delete stopped the container and before
\* it removed it.
C3_Witness ==
    \E p \in Procs :
        /\ rq[p].op = "delete" /\ Managed(p)
        /\ rq[p].pc = "done" /\ rq[p].res = "crashed" /\ rq[p].at = "remove"
        /\ rq[p].calls = <<[call |-> "stop", ok |-> TRUE]>>
        /\ runtime[rq[p].id] = "exited" /\ rq[p].id \in ledger

\* C4: delete of a managed container found running calls stop first; when that
\* stop fails the delete raises DockerAPIException, makes no further call (no
\* removal) and the ledger row is still there.
C4_FailedStopAbortsDelete ==
    \A p \in Procs :
        (rq[p].op = "delete" /\ Managed(p) /\ rq[p].container = "running"
            /\ rq[p].calls # <<>>) =>
            /\ rq[p].calls[1].call = "stop"
            /\ ~rq[p].calls[1].ok =>
                  /\ Len(rq[p].calls) = 1
                  /\ rq[p].pc = "done" /\ rq[p].res = RuntimeError
                  /\ rq[p].id \in ledger

\* C4 witness: a forced delete whose stop failed.
C4_Witness ==
    \E p \in Procs :
        /\ rq[p].op = "delete" /\ rq[p].force /\ Managed(p)
        /\ rq[p].container = "running"
        /\ rq[p].calls = <<[call |-> "stop", ok |-> FALSE]>>
        /\ Answered(p)

\* C5 (as claimed): a start, stop, restart or delete of a managed container
\* that raises leaves the container's runtime status and its ledger row as they
\* were when the request arrived.
C5_FailureChangesNothing ==
    \A p \in Procs :
        (rq[p].op \in {"start", "stop", "restart", "delete"} /\ Managed(p)
            /\ Answered(p) /\ rq[p].res # "ok") =>
            /\ runtime[rq[p].id] = rq[p].preRt
            /\ rq[p].id \in ledger

\* C6: a delete(id, force=True) of a managed container the runtime holds raises
\* only when one of its external calls fails; when it returns it has removed the
\* container from the runtime and the ledger; a delete(id, force=True) issued
\* after it makes no runtime call and raises ContainerNotFoundException at the
\* ledger check.
C6_SecondDeleteNotFound ==
    \A p \in Procs :
        (rq[p].op = "delete" /\ rq[p].force) =>
            /\ (Answered(p) /\ Managed(p) /\ rq[p].preRt # "absent"
                    /\ rq[p].res # "ok") =>
                  \/ rq[p].at = "get" /\ rq[p].res = RuntimeError
                  \/ \E k \in 1..Len(rq[p].calls) : ~rq[p].calls[k].ok
            /\ (Answered(p) /\ rq[p].res = "ok") =>
                  /\ runtime[rq[p].id] = "absent"
                  /\ rq[p].id \notin ledger
                  /\ rq[p].id \in deleted
            /\ rq[p].id \in rq[p].preDeleted =>
                  /\ rq[p].calls = <<>>
                  /\ rq[p].pc \in {"check_db", "done"}
                  /\ Answered(p) =>
                        rq[p].res = NotFound /\ rq[p].at = "check_db"

\* C6 witness: the second forced delete of a container has been answered.
C6_Witness ==
    \E p \in Procs :
        /\ rq[p].op = "delete" /\ rq[p].force
        /\ rq[p].id \in rq[p].preDeleted
        /\ Managed(p) = FALSE
        /\ Answered(p) /\ rq[p].res = NotFound

\* C7 (as claimed): restart of an id without a ledger row raises
\* ContainerNotFoundException, as start and stop do, and makes no runtime call.
C7_RestartUnmanagedNotFound ==
    \A p \in Procs :
        (rq[p].op = "restart" /\ ~Managed(p)) =>
            /\ rq[p].calls = <<>>
            /\ Answered(p) => rq[p].res = NotFound

\* C8 (as claimed): getStats returns only for an id with a ledger row that the
\* runtime holds; without a ledger row, and without a runtime container, it
\* raises ContainerNotFoundException.
C8_StatsGate ==
    \A p \in Procs :
        (rq[p].op = "stats" /\ Answered(p)) =>
            /\ rq[p].res = "ok" => Managed(p) /\ rq[p].preRt # "absent"
            /\ ~Managed(p) => rq[p].res = NotFound
            /\ rq[p].preRt = "absent" => rq[p].res = NotFound

\* C9 (as claimed): when the runtime call of start, stop or restart fails, the
\* request raises DockerAPIException and nothing else.
C9_TransitionErrorsWrapped ==
    \A p \in Procs :
        (rq[p].op \in {"start", "stop", "restart"} /\ Answered(p)
            /\ rq[p].calls # <<>> /\ ~rq[p].calls[1].ok)
            => rq[p].res = RuntimeError

\* C10 (as claimed): getStats of a managed container whose snapshot has a host
\* cpu usage of zero returns, with the sentinel as cpu_usage_percent.
C10_ZeroHostCpuGivesSentinel ==
    \A p \in Procs :
        (rq[p].op = "stats" /\ Managed(p) /\ Answered(p) /\ rq[p].seen = 0) =>
            /\ rq[p].res = "ok"
            /\ rq[p].ret.cpu_usage_percent = Str(NoData)

\* The entity list_containers builds for container i.
Entity(i) == [id |-> i, status |-> runtime[i], image |-> first_tag(image[i])]

NewEntries(p) == {x \in rq[p].ret.items : x.id \notin rq[p].prev.preLed}

\* The round trip of a clone-and-run that returned, where `expected` is the
\* image of the new entry: the next list has exactly one new entry, the
\* container the pipeline created, with that image; and getInfo of that
\* container does not raise not-found (it fails only when the runtime lookup
\* itself fails).
RoundTrip(expected) ==
    \A p \in Procs :
        rq[p].prev.id # 0 /\ Answered(p) =>
            /\ rq[p].op = "list" /\ rq[p].res = "ok" =>
                  /\ Cardinality(NewEntries(p)) = 1
                  /\ \A x \in NewEntries(p) :
                         x.id = rq[p].prev.id /\ x.image = expected
            /\ rq[p].op = "info" /\ rq[p].id = rq[p].prev.id =>
                  \/ rq[p].res = "ok" /\ rq[p].ret.image = expected
                  \/ rq[p].res = RuntimeError /\ rq[p].at = "get"

\* C12 as stated: after a successful cloneAndRun(url, dir) the list has exactly
\* one new entry, whose image equals the tag the pipeline derived from url, and
\* getInfo on it succeeds.
C12_ImageEqualsDerivedTag ==
    \A t \in {image_tag(repo_dir(u)) : u \in Urls} :
        (\E p \in Procs : rq[p].prev.image_tag = t) => RoundTrip(t)

\* What the code does instead: the same round trip, the image of the new entry
\* being the derived tag under the version "latest", the name Docker reports.
C12_ImageIsDerivedTagLatest ==
    \A t \in {image_tag(repo_dir(u)) : u \in Urls} :
        (\E p \in Procs : rq[p].prev.image_tag = t) => RoundTrip(t \o ":latest")

\* A list after a clone-and-run returned the container it created.
C12_Witness ==
    \E p \in Procs :
        /\ rq[p].op = "list" /\ Answered(p) /\ rq[p].res = "ok"
        /\ rq[p].prev.id # 0
        /\ \E x \in rq[p].ret.items : x.id = rq[p].prev.id

\* C13: a clone-and-run whose step failed raises (the failure is not
\* swallowed), and the kind raised names the step: RepositoryFetchError for the
\* fetch, BuildError for the build, the runtime error for the run.
C13_FailureKindNamesStep ==
    \A p \in Procs :
        rq[p].op = "clone" /\ Answered(p) =>
            /\ (\E k \in 1..Len(rq[p].calls) : ~rq[p].calls[k].ok) => rq[p].res # "ok"
            /\ rq[p].at = "fetch" => rq[p].res = "RepositoryFetchError"
            /\ rq[p].at = "build" => rq[p].res = "BuildError"
            /\ rq[p].at = "run" => rq[p].res = RuntimeError

\* The request in slot p is a clone-and-run between the start of its fetch and
\* the end of its build.
InFetchToBuild(p) == rq[p].op = "clone" /\ rq[p].pc \in {"fetch", "build"}

\* C14: on the event loop, no two clone-and-run requests with the same
\* working directory are both between the start of the fetch and the end of
\* the build.
C14_OnePipelinePerDirectory ==
    \A p, q \in Procs :
        /\ p # q
        /\ InFetchToBuild(p) /\ InFetchToBuild(q)
        => repo_dir(rq[p].url) # repo_dir(rq[q].url)

\* Two clone-and-run requests for one working directory are in flight, from
\* different URLs, and one of them is in its fetch-to-build section.
C14_Witness ==
    \E p, q \in Procs :
        /\ p # q /\ rq[p].op = "clone" /\ rq[q].op = "clone"
        /\ Running(p) /\ Running(q)
        /\ rq[p].url # rq[q].url
        /\ repo_dir(rq[p].url) = repo_dir(rq[q].url)
        /\ InFetchToBuild(p)

\* start(id) in slot p and delete(id) in slot q, for a container that had its
\* ledger row when each of them arrived.
StartAndDelete(p, q) ==
    /\ p # q
    /\ rq[p].op = "start" /\ rq[q].op = "delete" /\ rq[p].id = rq[q].id
    /\ Managed(p) /\ Managed(q)

\* C15: on the event loop, for start(id) and delete(id) in flight together on
\* a managed container: start is never about to make its runtime call on a
\* container that is no longer in the runtime, and when both have finished and
\* delete returned, the runtime has no container id and the ledger no row.
C15_StartAndDeleteDontRace ==
    \A p, q \in Procs :
        StartAndDelete(p, q) =>
            /\ rq[p].pc = "act" => runtime[rq[p].id] # "absent"
            /\ (Answered(p) /\ Answered(q) /\ rq[q].res = "ok") =>
                  runtime[rq[q].id] = "absent" /\ rq[q].id \notin ledger

\* start passed the ledger check, delete then removed the container, and
\* start found no container to act on.
C15_Witness ==
    \E p, q \in Procs :
        /\ StartAndDelete(p, q)
        /\ Answered(p) /\ rq[p].res = NotFound /\ rq[p].at = "get"
        /\ Answered(q) /\ rq[q].res = "ok"

\* The request in slot p is a clone-and-run inside its fetch, build or run.
InPipelineStep(p) == rq[p].op = "clone" /\ rq[p].pc \in {"fetch", "build", "run"}

\* C16: while a clone-and-run is inside its fetch, build or run (for as long
\* as that step takes, forever if it hangs), the event loop lets every other
\* request in flight take its next step and lets a new request begin.
C16_PipelineBlocksOnlyItself ==
    \A p \in Procs :
        InPipelineStep(p) =>
            \A q \in Procs \ {p} :
                /\ Running(q) => ENABLED LoopStep(q)
                /\ (~Running(q) /\ ncalls < MaxCalls) => ENABLED LoopBegin(q)

C18_NoConnectionAcrossRuntimeCall ==
    \A p \in Procs : rq[p].conn => rq[p].pc \in LedgerPcs

\* A request that took a connection for a ledger call is at a runtime call
\* that follows it.
C18_Witness ==
    \E p \in Procs :
        /\ rq[p].op = "delete" /\ rq[p].pc = "remove"
        /\ ~rq[p].conn
        /\ Managed(p)

\* The signup or login request in slot p has been answered.
AuthAnswered(p) == aq[p].pc = "done"

\* The rows the users table held for the request's username when it arrived.
RowsBefore(p) == {row \in aq[p].preUsers : row.username = aq[p].username}

\* C19: with one request at a time, signup(u, p) for a username without a row
\* succeeds and leaves exactly one row for u, whose hash verifies p; a login
\* (u, p) against the one row of u whose hash verifies p returns that user; and
\* signup(u, p') for a username with a row raises UserAlreadyExistsException
\* and leaves the table, hashes included, as it was.
C19_RegisterThenAuthenticate ==
    \A p \in Procs :
        AuthAnswered(p) =>
            /\ (aq[p].op = "signup" /\ RowsBefore(p) = {}) =>
                  /\ aq[p].res = "ok"
                  /\ get_user_by_username(aq[p].username) = {aq[p].user}
                  /\ verify_password(aq[p].password, aq[p].user.hashed_password)
                  /\ users = aq[p].preUsers \cup {aq[p].user}
            /\ (aq[p].op = "login" /\ Cardinality(RowsBefore(p)) = 1) =>
                  \A row \in RowsBefore(p) :
                      verify_password(aq[p].password, row.hashed_password) =>
                          aq[p].res = "ok" /\ aq[p].user = row
            /\ (aq[p].op = "signup" /\ RowsBefore(p) # {}) =>
                  /\ aq[p].res = "UserAlreadyExistsException"
                  /\ users = aq[p].preUsers

\* A second signup for a registered username, with another password, was
\* refused.
C19_Witness ==
    \E p \in Procs :
        /\ AuthAnswered(p) /\ aq[p].op = "signup"
        /\ aq[p].res = "UserAlreadyExistsException"
        /\ \E row \in users :
               /\ row.username = aq[p].username
               /\ ~verify_password(aq[p].password, row.hashed_password)

\* What the caller of a login sees.
Observable(p) == [res |-> aq[p].res, msg |-> aq[p].msg, response |-> aq[p].response]

\* C20: a login that fails for a username without a row shows the caller
\* what a login that fails on the password of an existing user shows: the same
\* exception kind and message from authenticate_user, the same response from
\* the endpoint.
C20_FailuresIndistinguishable ==
    \A p \in Procs :
        (AuthAnswered(p) /\ aq[p].op = "login" /\ aq[p].cause # "none") =>
            Observable(p) = [res |-> "AuthenticationException",
                             msg |-> "Incorrect username or password",
                             response |-> [status |-> 401,
                                           detail |-> "Invalid username or password"]]

\* A login for a username without a row failed while the table has a user.
C20_Witness ==
    \E p \in Procs :
        /\ AuthAnswered(p) /\ aq[p].op = "login"
        /\ aq[p].cause = "unknown"
        /\ users # {}

\* The lifetime a caller of create_token asked for, in minutes.
Ttl(i) == IF i.delta = <<>> THEN DefaultAccessMinutes ELSE i.delta[1]

\* validate_token is being answered for token t.
Validated(t) == tq.op = "validate" /\ tq.token = <<t>>

TokenExpired == HTTPException(401, "Token has expired")
TokenInvalid == HTTPException(401, "Invalid token")

\* C21: an access token issued for a subject with lifetime ttl validates, with
\* that subject in the payload, at every instant before issue + ttl and fails
\* with TokenExpired at every instant after it; the same payload under a bad
\* signature fails with TokenInvalid, which is not TokenExpired.
C21_AccessTokenLivesItsTtl ==
    \A i \in issued :
        /\ i.type = "access" /\ Validated(i.tok) =>
              /\ now < i.at + Ttl(i) => tq.res.kind = "ok" /\ tq.res.out[1].sub = i.tok.sub
              /\ now > i.at + Ttl(i) => tq.res = TokenExpired
        /\ Validated([i.tok EXCEPT !.key = ForgedKey]) =>
              tq.res = TokenInvalid /\ TokenInvalid # TokenExpired

\* C21 for the lifetimes that are not timedelta(0): what holds of the code.
C21_PositiveTtl ==
    \A i \in issued : i.delta # <<0>> => C21_AccessTokenLivesItsTtl

\* A refresh entry point, or the refresh endpoint, is being answered for a token
\* that validates at this instant.
RefreshedWithValid ==
    /\ tq.op \in {"refresh", "refresh_endpoint"}
    /\ tq.token # NoToken
    /\ validate_token(tq.token[1]).kind = "ok"

KindMismatch == HTTPException(401, "Invalid or expired refresh token")

\* C22: every refresh entry point answers a valid, unexpired token of the access
\* kind with the kind-mismatch failure, and issues no access token.
C22_AccessKindNeverRefreshes ==
    RefreshedWithValid /\ tq.token[1].type # "refresh" =>
        tq.res = KindMismatch /\ tq.res.out = NoToken

\* C22: AuthService.refresh_access_token has been called with a valid access token.
C22_Witness ==
    RefreshedWithValid /\ tq.token[1].type # "refresh" /\ tq.op = "refresh"
        /\ tq.entry = "AuthService"

UserNotFound == {HTTPException(401, "User not found"), HTTPException(404, "User not found")}

\* C23: every refresh entry point answers a valid refresh token whose subject
\* has no user record with UserNotFound, and issues no token.
C23_UnknownSubjectNeverRefreshes ==
    /\ RefreshedWithValid /\ tq.op = "refresh" /\ tq.token[1].type = "refresh"
    /\ get_user_by_username(tq.token[1].sub) = {}
    => tq.res \in UserNotFound /\ tq.res.out = NoToken

\* C23 for the two entry points that look the subject up.
C23_LookingUpEntries ==
    tq.entry \in {"AuthService", "RefreshToken"} => C23_UnknownSubjectNeverRefreshes

\* The lifetimes the code gives an access token it creates on refresh.
AccessTtls == {access_token_expire_minutes, DefaultAccessMinutes}

\* A refresh is being answered for a valid refresh token of an existing user.
RefreshedByUser ==
    /\ RefreshedWithValid /\ tq.token[1].type = "refresh"
    /\ get_user_by_username(tq.token[1].sub) # {}

\* C24: every refresh with a valid refresh token of an existing user, however
\* many came before it, succeeds and returns one access token for the subject
\* that expires an access lifetime after the call; the refresh token stays as
\* it was.
C24_RefreshSucceedsEveryTime ==
    RefreshedByUser =>
        /\ tq.res.kind = "ok"
        /\ \E ttl \in AccessTtls :
              tq.res.out = <<[sub |-> tq.token[1].sub, type |-> "", key |-> secret_key,
                              exp |-> now + ttl]>>
        /\ validate_token(tq.token[1]).kind = "ok"

\* C24 for the entry points that are not AuthService: what holds of the code.
C24_OtherEntries ==
    tq.op = "refresh" /\ tq.entry # "AuthService" => C24_RefreshSucceedsEveryTime

\* validate_token accepts token t at this instant.
Accepts(t) == validate_token(t).kind = "ok"

\* What the server keeps in store: the users table.
ServerSide == users

\* C25: whatever is called, logout and refresh included, a token that
\* validate_token accepts is accepted at the next instant too unless its
\* expiry has come; a logout changes nothing on the server.
C25_AcceptedUntilExpiry ==
    [][/\ \A t \in Presentable : Accepts(t) /\ now' < t.exp => Accepts(t)'
       /\ tq'.op = "logout" => ServerSide' = ServerSide /\ now' = now]_vars

\* C25: a token is accepted after a logout at a later instant than its issue.
C25_Witness ==
    /\ tq.op = "logout"
    /\ \E i \in issued : Accepts(i.tok) /\ now > i.at

\* get_current_user is being answered for a request whose access_token cookie
\* holds a token of the refresh kind that validates at this instant.
GateWithRefreshKind ==
    /\ tq.op = "get_current_user" /\ tq.token # NoToken
    /\ tq.token[1].type = "refresh" /\ Accepts(tq.token[1])

\* C28: a validly signed, unexpired refresh token in the place of the access
\* token does not pass get_current_user.
C28_GateTakesAccessKindOnly == GateWithRefreshKind => tq.res.kind # "ok"

\* C28 for the access kind: a valid access token of an existing user passes.
C28_AccessKindPasses ==
    /\ tq.op = "get_current_user" /\ tq.token # NoToken
    /\ tq.token[1].type = "" /\ Accepts(tq.token[1])
    /\ get_user_by_username(tq.token[1].sub) # {}
    => tq.res = Payload(tq.token[1])

\* The clone-and-run in slot p has ended, by returning or raising, after its run
\* step started a container.
EndedAfterRun(p) ==
    /\ rq[p].op = "clone" /\ rq[p].pc = "done" /\ rq[p].res # "crashed"
    /\ \E k \in DOMAIN rq[p].calls : rq[p].calls[k] = [call |-> "run", ok |-> TRUE]

\* C26: when a clone-and-run has ended, by success or by the failure of a step,
\* the container its run step started has a ledger row.
C26_StartedContainerHasRow ==
    \A p \in Procs : EndedAfterRun(p) /\ runtime[rq[p].id] # "absent" => rq[p].id \in ledger

\* C26 for the invocations that return: the container they started has its row.
C26_ReturnedHasRow ==
    \A p \in Procs : EndedAfterRun(p) /\ rq[p].res = "ok" => rq[p].id \in ledger

\* The delete in slot p began on what an interrupted delete leaves behind: a
\* ledger row whose container is gone from the runtime.
OnLeftoverRow(p) ==
    rq[p].op = "delete" /\ rq[p].preRt = "absent" /\ rq[p].id \in rq[p].preLed

\* C27: a delete(id) that begins on a leftover ledger row and runs to its end,
\* neither crashing nor failing at the runtime or the ledger store, has
\* removed the row.
C27_LeftoverRowIsCleanedUp ==
    \A p \in Procs :
        /\ OnLeftoverRow(p) /\ rq[p].pc = "done"
        /\ rq[p].res \in {"ok", "ContainerNotFoundException"}
        => rq[p].id \notin ledger

\* C27, what holds instead: a delete that begins on a leftover row never
\* removes it, however it ends.
C27_LeftoverRowStays ==
    \A p \in Procs : OnLeftoverRow(p) => rq[p].id \in ledger

\* Two signups for username u, each begun before u had a row, have both ended.
RacedFor(u) ==
    \A p \in Procs :
        /\ aq[p].op = "signup" /\ aq[p].username = u /\ aq[p].pc = "done"
        /\ \A row \in aq[p].preUsers : row.username # u

\* C29: of two concurrent signups for the same new username exactly one
\* succeeds, the other fails with UserAlreadyExists, and the users table ends
\* with one row for the username.
C29_OneOfTwoRegisters ==
    \A u \in Usernames :
        RacedFor(u) =>
            /\ {aq[p].res : p \in Procs} = {"ok", "UserAlreadyExistsException"}
            /\ Cardinality({p \in Procs : aq[p].res = "ok"}) = 1
            /\ Cardinality(get_user_by_username(u)) = 1

\* C29, what holds: at least one of the two succeeds and the username has a row.
C29_AtLeastOneRegisters ==
    \A u \in Usernames :
        RacedFor(u) =>
            /\ \E p \in Procs : aq[p].res = "ok"
            /\ get_user_by_username(u) # {}

\* The clone-and-run in slot p has made the call `name` with success.
Made(p, name) ==
    /\ rq[p].op = "clone"
    /\ \E k \in DOMAIN rq[p].calls : rq[p].calls[k] = [call |-> name, ok |-> TRUE]

\* C30: once the fetch of a clone-and-run for url has succeeded, the working
\* directory derived from url holds a checkout of url, and once its build has
\* succeeded the tag derived from url names an image built from url.
C30_CheckoutIsOfUrl ==
    \A p \in Procs :
        /\ Made(p, "fetch") => repos[repo_dir(rq[p].url)] = rq[p].url
        /\ Made(p, "build") => images[image_tag(repo_dir(rq[p].url))] = rq[p].url

\* C30, what holds: the directory holds the checkout of the first URL that
\* derived it.
C30_FirstUrlKeepsDirectory ==
    [][\A d \in DOMAIN repos : d \in DOMAIN repos' /\ repos'[d] = repos[d]]_vars

====
